---- MODULE Spec2Model ----
\* Model of the VirusTotal scan core: the upstream client (fetchJson), the
\* scan orchestrator (scanUrl / scanAndNotify), the analysis poller
\* (waitForAnalysis) and the verdict summarizer (summarize).
EXTENDS Integers, Naturals, Sequences, FiniteSets, TLC

VARIABLES
    pc,           \* position of the in-flight scanUrl call
    started,      \* sequence of orchestrator steps begun, in order
    stepState,    \* per step: "idle" | "ok" | "error"
    preCalls,     \* upstream GET /urls/{id} calls made for the pre-scan report
    submitCalls,  \* upstream POST /urls calls made
    statusCalls,  \* upstream GET /analyses/{id} calls made by the poller
    postCalls,    \* upstream GET /urls/{id} calls made for the post-scan report
    sleeps,       \* sleep(intervalMs) calls completed by the poller
    elapsed,      \* Date.now() - start inside waitForAnalysis (ms)
    lastStatus,   \* status read by the latest poller fetch
    allPending,   \* every poller fetch so far returned queued or running
    pollOutcome,  \* how waitForAnalysis ended
    lastReq,      \* HTTP outcome of the latest upstream call
    lastRes,      \* what fetchJson made of it
    submitResp,   \* what the submit response carried
    raised,       \* error raised by the failing step
    scanErr,      \* error delivered to the caller of scanUrl
    result,       \* "pending" | "summary" | "error"
    sumPre,       \* pre-scan report handed to summarize
    sumPost,      \* post-scan report handed to summarize
    sumNow,       \* Date.now() inside summarize
    sumImpl,      \* which summarize implementation runs
    summary,      \* summarize's output
    hmIn,         \* argument of a humanizeDuration call
    hmOut,        \* its result
    b64In,        \* code points of the string handed to b64url
    b64Out,       \* b64url's output, one character per element
    cache,        \* BackgroundService.cache: <<key, timestamp>> in Map insertion order
    clock,        \* Date.now() in the extension's background page (ms)
    cacheOps,     \* cache operations performed
    lastOp,       \* the latest cache operation and what it observed
    csScanning,   \* VirusTotalScanner.isScanning (content script)
    csSent,       \* scanUrl messages the content script has sent
    csIgnored,    \* content-script scanUrl calls dropped by the isScanning guard
    reqUrl,       \* per scan message: the URL it carries
    reqPc,        \* per scan message: where it is in BackgroundService.scanUrl
    reqHit,       \* per scan message: getCachedResult returned a result
    reqOutcome,   \* per scan message: "none" | "cache" | "ok" | "fail"
    reqCalls,     \* per scan message: POST {apiEndpoint}/scan calls made
    bgCache,      \* BackgroundService.cache with the stored result (message id)
    bgClock,      \* Date.now() in the background page (ms)
    bgTicks,      \* clock advances taken
    bgLastStored, \* per URL: the message whose result was stored last
    ctlIn,        \* body of a POST /api/virustotal/scan request
    ctlPc,        \* where that request is: validation, service call, response
    ctlUpstream,  \* upstream calls made on its behalf
    ctlResult,    \* how VirusTotalService.scanUrl ended for it
    ctlStatus     \* HTTP status of the response

scanVars == <<pc, started, stepState, preCalls, submitCalls, statusCalls, postCalls,
              sleeps, elapsed, lastStatus, allPending, pollOutcome, lastReq,
              lastRes, submitResp, raised, scanErr, result>>
sumVars == <<sumPre, sumPost, sumNow, sumImpl, summary>>
hmVars == <<hmIn, hmOut>>
b64Vars == <<b64In, b64Out>>
cacheVars == <<cache, clock, cacheOps, lastOp>>
extVars == <<csScanning, csSent, csIgnored, reqUrl, reqPc, reqHit, reqOutcome, reqCalls,
             bgCache, bgClock, bgTicks, bgLastStored>>
ctlVars == <<ctlIn, ctlPc, ctlUpstream, ctlResult, ctlStatus>>
auxVars == <<hmVars, b64Vars, cacheVars, extVars, ctlVars>>
vars == <<scanVars, sumVars, auxVars>>

\* ---------------------------------------------------------------------------
\* Program constants and model bounds
\* ---------------------------------------------------------------------------
IntervalMs == 3000
TimeoutMs == 180000
MaxLatency == 1
MaxSleepDelay == 1
FetchCap == 70

\* Time taken by one status fetch and extra delay of a setTimeout(interval).
Latencies == {k * 1000 : k \in 0..MaxLatency}
SleepDelays == {k * 1000 : k \in 0..MaxSleepDelay}

\* ---------------------------------------------------------------------------
\* Upstream client
\* ---------------------------------------------------------------------------
\* HTTP outcome of one fetch(): http 0 is a transport failure (fetch rejects);
\* body is what a 2xx body is as JSON: an object, null, a falsy scalar
\* (false, 0, ""), a truthy scalar, or not JSON at all.
BodyKinds == {"object", "null", "falsy", "scalar", "invalid"}
Responses ==
    {[http |-> 200, body |-> b] : b \in BodyKinds}
    \cup {[http |-> h, body |-> "none"] : h \in {0, 301, 404, 429, 500}}
NoReq == [http |-> -1, body |-> "none"]

Err(k, c, s) == [kind |-> "error", err |-> k, code |-> c, st |-> s]
NoErr == [kind |-> "none", err |-> "none", code |-> 0, st |-> ""]
Body == [kind |-> "body", err |-> "", code |-> 0, st |-> ""]
Null == [kind |-> "null", err |-> "", code |-> 0, st |-> ""]
Falsy == [kind |-> "falsy", err |-> "", code |-> 0, st |-> ""]
Scalar == [kind |-> "scalar", err |-> "", code |-> 0, st |-> ""]

\* await res.json(): the parsed value, or a SyntaxError.
ParseBody(b) ==
    CASE b = "object" -> Body
      [] b = "null" -> Null
      [] b = "falsy" -> Falsy
      [] b = "scalar" -> Scalar
      [] b = "invalid" -> Err("parse", 0, "")

IsOk(h) == h >= 200 /\ h <= 299

\* fetchJson: res.ok -> res.json(); 404 -> null; other status -> Error(HTTP status).
\* Variant that takes every 4xx for "not found".
FetchJsonAll4xxNull(r) ==
    IF r.http = 0 THEN Err("network", 0, "")
    ELSE IF IsOk(r.http) THEN ParseBody(r.body)
    ELSE IF r.http >= 400 /\ r.http <= 499 THEN Null
    ELSE Err("http", r.http, "")

FetchJson(r) ==
    IF r.http = 0 THEN Err("network", 0, "")
    ELSE IF IsOk(r.http) THEN ParseBody(r.body)
    ELSE IF r.http = 404 THEN Null
    ELSE Err("http", r.http, "")

\* ---------------------------------------------------------------------------
\* Orchestrator
\* ---------------------------------------------------------------------------
Steps == {"pre", "submit", "poll", "post", "summarize"}
Order == <<"pre", "submit", "poll", "post", "summarize">>

\* Variant that fetches the final report without waiting for the analysis.
NextStepSkipPoll(s) ==
    CASE s = "pre" -> "submit"
      [] s = "submit" -> "post"
      [] s = "poll" -> "post"
      [] s = "post" -> "summarize"
      [] s = "summarize" -> "done"

\* The step that follows a successful one in scanUrl.
NextStep(s) ==
    CASE s = "pre" -> "submit"
      [] s = "submit" -> "poll"
      [] s = "poll" -> "post"
      [] s = "post" -> "summarize"
      [] s = "summarize" -> "done"

\* Variant that wraps HTTP errors in a new error.
ScanCatchWrap(e) == IF e.err = "http" THEN Err("upstream", e.code, e.st) ELSE e

\* scanUrl's catch block: log and rethrow the same error.
ScanCatch(e) == e

\* Variant that only rejects a body without id, letting a null response through.
HasJobIdNullOk(res, hasId) == res.kind = "null" \/ (res.kind = "body" /\ hasId)

\* `!json?.data?.id` in submitUrl.
HasJobId(res, hasId) == res.kind = "body" /\ hasId

JobStatuses == {"queued", "running", "completed", "failed", "absent"}

\* Variant with the status literal misspelt 'complete'.
PollDecisionTypoComplete(st) ==
    IF st = "complete" THEN "return"
    ELSE IF st /= "absent" /\ st \notin {"queued", "running"} THEN "throw"
    ELSE "sleep"

\* Variant with no unexpected-status check.
PollDecisionLenient(st) ==
    IF st = "completed" THEN "return" ELSE "sleep"

\* Variant with 'running' misspelt in the pending check.
PollDecisionTypoRunning(st) ==
    IF st = "completed" THEN "return"
    ELSE IF st /= "absent" /\ st \notin {"queued", "runnning"} THEN "throw"
    ELSE "sleep"

\* waitForAnalysis's decision on a fetched status.
PollDecision(st) ==
    IF st = "completed" THEN "return"
    ELSE IF st /= "absent" /\ st \notin {"queued", "running"} THEN "throw"
    ELSE "sleep"

Fail(step, e) ==
    /\ stepState' = [stepState EXCEPT ![step] = "error"]
    /\ raised' = e
    /\ scanErr' = ScanCatch(e)
    /\ result' = "error"
    /\ pc' = "failed"

Succeed(step) ==
    /\ stepState' = [stepState EXCEPT ![step] = "ok"]
    /\ pc' = NextStep(step)

ScanInit ==
    /\ pc = "pre"
    /\ started = <<>>
    /\ stepState = [s \in Steps |-> "idle"]
    /\ preCalls = 0 /\ submitCalls = 0 /\ statusCalls = 0 /\ postCalls = 0
    /\ sleeps = 0
    /\ elapsed = 0
    /\ lastStatus = "none"
    /\ allPending = TRUE
    /\ pollOutcome = "none"
    /\ lastReq = NoReq
    /\ lastRes = NoErr
    /\ submitResp = "none"
    /\ raised = NoErr
    /\ scanErr = NoErr
    /\ result = "pending"

\* ---------------------------------------------------------------------------
\* Verdict summarizer
\* ---------------------------------------------------------------------------
\* A JSON field that is missing (undefined / null).
Undef == -1
DaySec == 24 * 60 * 60
\* Date.now() / 1000 at the moment summarize runs.
NowSec == 1760 * 1000000

\* `x || 0` on a non-negative count.
OrZero(x) == IF x = Undef THEN 0 ELSE x
\* JavaScript truthiness of an optional number.
Truthy(x) == x /= Undef /\ x /= 0

\* A millisecond quantity s * 1000 + r held as whole seconds s and remainder
\* r \in 0..999 (epoch milliseconds exceed TLC's integer range).
Ms(s, r) == [s |-> s, r |-> r]
\* now - tsSec * 1000.
MinusSec(a, tsSec) == Ms(a.s - tsSec, a.r)
\* Variant comparing with >=.
GreaterOrEqualSec(a, k) == a.s >= k

\* a > k * 1000.
GreaterThanSec(a, k) == a.s > k \/ (a.s = k /\ a.r > 0)

\* Variant whose month bucket starts above one month.
HumanizeDurationMonthsGt1(isNull, ms) ==
    IF isNull \/ ms.s < 0 THEN "unknown"
    ELSE LET sec == ms.s
             mins == sec \div 60
             hours == mins \div 60
             days == hours \div 24
             months == days \div 30
         IN IF months > 1
            THEN ToString(months) \o " month" \o (IF months > 1 THEN "s" ELSE "")
                 \o " " \o ToString(days % 30) \o "d"
            ELSE IF days >= 1 THEN ToString(days) \o "d " \o ToString(hours % 24) \o "h"
            ELSE IF hours >= 1 THEN ToString(hours) \o "h " \o ToString(mins % 60) \o "m"
            ELSE IF mins >= 1 THEN ToString(mins) \o "m"
            ELSE ToString(sec) \o "s"

\* Variant printing the total day count in the month bucket.
HumanizeDurationTotalDays(isNull, ms) ==
    IF isNull \/ ms.s < 0 THEN "unknown"
    ELSE LET sec == ms.s
             mins == sec \div 60
             hours == mins \div 60
             days == hours \div 24
             months == days \div 30
         IN IF months >= 1
            THEN ToString(months) \o " month" \o (IF months > 1 THEN "s" ELSE "")
                 \o " " \o ToString(days) \o "d"
            ELSE IF days >= 1 THEN ToString(days) \o "d " \o ToString(hours % 24) \o "h"
            ELSE IF hours >= 1 THEN ToString(hours) \o "h " \o ToString(mins % 60) \o "m"
            ELSE IF mins >= 1 THEN ToString(mins) \o "m"
            ELSE ToString(sec) \o "s"

\* humanizeDuration(ms); isNull models ms == null.  Math.floor(ms / 1000) is
\* ms.s, and ms < 0 exactly when ms.s < 0.
HumanizeDuration(isNull, ms) ==
    IF isNull \/ ms.s < 0 THEN "unknown"
    ELSE LET sec == ms.s
             mins == sec \div 60
             hours == mins \div 60
             days == hours \div 24
             months == days \div 30
         IN IF months >= 1
            THEN ToString(months) \o " month" \o (IF months > 1 THEN "s" ELSE "")
                 \o " " \o ToString(days % 30) \o "d"
            ELSE IF days >= 1 THEN ToString(days) \o "d " \o ToString(hours % 24) \o "h"
            ELSE IF hours >= 1 THEN ToString(hours) \o "h " \o ToString(mins % 60) \o "m"
            ELSE IF mins >= 1 THEN ToString(mins) \o "m"
            ELSE ToString(sec) \o "s"

Pad2(n) == IF n < 10 THEN "0" \o ToString(n) ELSE ToString(n)
Pad4(n) == IF n < 10 THEN "000" \o ToString(n)
           ELSE IF n < 100 THEN "00" \o ToString(n)
           ELSE IF n < 1000 THEN "0" \o ToString(n)
           ELSE ToString(n)

\* Proleptic Gregorian <<year, month, day>> of a day count since 1970-01-01.
CivilFromDays(z0) ==
    LET z == z0 + 719468
        era == z \div 146097
        doe == z - era * 146097
        yoe == (doe - doe \div 1460 + doe \div 36524 - doe \div 146096) \div 365
        y == yoe + era * 400
        doy == doe - (365 * yoe + yoe \div 4 - yoe \div 100)
        mp == (5 * doy + 2) \div 153
        d == doy - (153 * mp + 2) \div 5 + 1
        m == IF mp < 10 THEN mp + 3 ELSE mp - 9
    IN <<IF m <= 2 THEN y + 1 ELSE y, m, d>>

\* toIso(tsSec): null for a falsy timestamp, else new Date(tsSec*1000).toISOString().
ToIso(tsSec) ==
    IF ~Truthy(tsSec) THEN "null"
    ELSE LET ymd == CivilFromDays(tsSec \div DaySec)
             sod == tsSec % DaySec
         IN Pad4(ymd[1]) \o "-" \o Pad2(ymd[2]) \o "-" \o Pad2(ymd[3]) \o "T"
            \o Pad2(sod \div 3600) \o ":" \o Pad2((sod % 3600) \div 60) \o ":"
            \o Pad2(sod % 60) \o ".000Z"

\* ---------------------------------------------------------------------------
\* Identifier encoder
\* ---------------------------------------------------------------------------
\* Standard base64 alphabet, index 0..63 at position 1..64.
B64Alphabet ==
    <<"A", "B", "C", "D", "E", "F", "G", "H", "I", "J", "K", "L", "M", "N", "O", "P", 
      "Q", "R", "S", "T", "U", "V", "W", "X", "Y", "Z", "a", "b", "c", "d", "e", "f", 
      "g", "h", "i", "j", "k", "l", "m", "n", "o", "p", "q", "r", "s", "t", "u", "v", 
      "w", "x", "y", "z", "0", "1", "2", "3", "4", "5", "6", "7", "8", "9", "+", "/">>

\* UTF-8 bytes of one code point (Buffer.from(input, 'utf8')).
Utf8Char(c) ==
    IF c < 128 THEN <<c>>
    ELSE IF c < 2048 THEN <<192 + c \div 64, 128 + (c % 64)>>
    ELSE IF c < 65536 THEN <<224 + c \div 4096, 128 + ((c \div 64) % 64), 128 + (c % 64)>>
    ELSE <<240 + c \div 262144, 128 + ((c \div 4096) % 64), 128 + ((c \div 64) % 64), 128 + (c % 64)>>

RECURSIVE Utf8(_)
Utf8(cps) == IF cps = <<>> THEN <<>> ELSE Utf8Char(Head(cps)) \o Utf8(Tail(cps))

B64Char(i) == B64Alphabet[i + 1]

\* .toString('base64'): 3 bytes to 4 characters, '=' padding on the last group.
RECURSIVE Base64(_)
Base64(bs) ==
    IF Len(bs) = 0 THEN <<>>
    ELSE IF Len(bs) = 1
    THEN <<B64Char(bs[1] \div 4), B64Char((bs[1] % 4) * 16), "=", "=">>
    ELSE IF Len(bs) = 2
    THEN <<B64Char(bs[1] \div 4), B64Char((bs[1] % 4) * 16 + bs[2] \div 16),
           B64Char((bs[2] % 16) * 4), "=">>
    ELSE <<B64Char(bs[1] \div 4), B64Char((bs[1] % 4) * 16 + bs[2] \div 16),
           B64Char((bs[2] % 16) * 4 + bs[3] \div 64), B64Char(bs[3] % 64)>>
         \o Base64(SubSeq(bs, 4, Len(bs)))

\* .replace(/x/g, y)
ReplaceAll(cs, x, y) == [i \in DOMAIN cs |-> IF cs[i] = x THEN y ELSE cs[i]]

\* Variant stripping a single trailing '=' (/=$/).
StripPaddingOnce(cs) ==
    IF cs /= <<>> /\ cs[Len(cs)] = "=" THEN SubSeq(cs, 1, Len(cs) - 1) ELSE cs

\* .replace(/=+$/, '')
RECURSIVE StripPadding(_)
StripPadding(cs) ==
    IF cs /= <<>> /\ cs[Len(cs)] = "=" THEN StripPadding(SubSeq(cs, 1, Len(cs) - 1)) ELSE cs

\* b64url(input)
B64Url(cps) == StripPadding(ReplaceAll(ReplaceAll(Base64(Utf8(cps)), "+", "-"), "/", "_"))

MaxStrLen == 3
\* 'a', '>', '?', 'ÿ', '€': bytes whose base64 uses '+', '/' and padding.
B64Chars == {97, 62, 63, 255, 8364}
B64Inputs == UNION {[1..n -> B64Chars] : n \in 0..MaxStrLen}

Encode ==
    /\ ~b64Out.done
    /\ b64Out' = [done |-> TRUE, chars |-> B64Url(b64In)]
    /\ UNCHANGED <<scanVars, sumVars, hmVars, b64In, cacheVars, extVars, ctlVars>>

\* ---------------------------------------------------------------------------
\* Result cache (BackgroundService)
\* ---------------------------------------------------------------------------
CacheDurationMs == 24 * 60 * 60 * 1000
MaxCacheEntries == 1000
EvictBatch == 100
MaxCacheOps == 2

\* Clock at the start of a run: an entry stored at time 100 is exactly 24h old.
CacheStartMs == CacheDurationMs + 100

\* Timestamps of cache entries in Map insertion order (position i of n):
\* stored in order with ties, re-stored in reverse order, all in the same
\* millisecond, and interleaved.
TsPattern(p, n, i) ==
    CASE p = 1 -> 1 + (i - 1) \div 7
      [] p = 2 -> 1 + (n - i) \div 3
      [] p = 3 -> 50
      [] p = 4 -> 1 + ((i * 37) % 150)

InitialCaches ==
    {[i \in 1..n |-> [key |-> i, ts |-> TsPattern(p, n, i)]] :
        p \in 1..4, n \in {MaxCacheEntries - 1, MaxCacheEntries}}

PutKeys == {2, 3001, 3002}
GetKeys == {694, 3001}

CacheKeys(c) == {c[i].key : i \in DOMAIN c}

\* this.cache.set(url, {result, timestamp}): a known key keeps its position.
SetEntry(c, k, now) ==
    IF k \in CacheKeys(c)
    THEN [i \in DOMAIN c |-> IF c[i].key = k THEN [key |-> k, ts |-> now] ELSE c[i]]
    ELSE Append(c, [key |-> k, ts |-> now])

\* Array.from(cache.entries()).sort by timestamp; the sort is stable, so equal
\* timestamps keep Map order (pos).
TsBefore(a, b) == a.ts < b.ts \/ (a.ts = b.ts /\ a.pos < b.pos)

Positioned(c) == [i \in DOMAIN c |-> [key |-> c[i].key, ts |-> c[i].ts, pos |-> i]]

\* Variant that skips the sort and drops the first-inserted entries.
CacheOrderInsertion(c) == Positioned(c)

CacheOrder(c) == SortSeq(Positioned(c), TsBefore)

\* entries[0..99] of the sorted array.
FirstEntries(sorted) == {[key |-> sorted[i].key, ts |-> sorted[i].ts] : i \in 1..EvictBatch}

\* Variant whose size check is off by one (size > 1001).
EvictedEntriesLate(c) ==
    IF Len(c) > MaxCacheEntries + 1 THEN FirstEntries(CacheOrder(c)) ELSE {}

\* The entries deleted by `for (i = 0; i < 100; i++) cache.delete(entries[i][0])`.
EvictedEntries(c) ==
    IF Len(c) > MaxCacheEntries THEN FirstEntries(CacheOrder(c)) ELSE {}

\* Date.now() - cached.timestamp < this.CACHE_DURATION
Fresh(age) == age < CacheDurationMs

\* setCachedResult(url, result)
CachePut ==
    /\ cacheOps < MaxCacheOps
    /\ \E k \in PutKeys, dt \in {0, 1} :
        \E c1 \in {SetEntry(cache, k, clock + dt)} :
        \E gone \in {EvictedEntries(c1)} :
        \E goneKeys \in {{e.key : e \in gone}} :
           /\ cache' = SelectSeq(c1, LAMBDA e : e.key \notin goneKeys)
           /\ clock' = clock + dt
           /\ lastOp' = [kind |-> "put", key |-> k, found |-> FALSE, age |-> 0, hit |-> FALSE,
                         sizeAfterSet |-> Len(c1), evicted |-> gone]
    /\ cacheOps' = cacheOps + 1
    /\ UNCHANGED <<scanVars, sumVars, hmVars, b64Vars, extVars, ctlVars>>

\* getCachedResult(url)
CacheGet ==
    /\ cacheOps < MaxCacheOps
    /\ \E k \in GetKeys, dt \in {0, 1} :
        LET now == clock + dt
            found == k \in CacheKeys(cache)
            idx == IF found THEN CHOOSE i \in DOMAIN cache : cache[i].key = k ELSE 0
            age == IF found THEN now - cache[idx].ts ELSE 0
            hit == found /\ Fresh(age)
        IN /\ cache' = IF found /\ ~hit THEN SelectSeq(cache, LAMBDA e : e.key /= k) ELSE cache
           /\ clock' = now
           /\ lastOp' = [kind |-> "get", key |-> k, found |-> found, age |-> age, hit |-> hit,
                         sizeAfterSet |-> 0, evicted |-> {}]
    /\ cacheOps' = cacheOps + 1
    /\ UNCHANGED <<scanVars, sumVars, hmVars, b64Vars, extVars, ctlVars>>

\* ---------------------------------------------------------------------------
\* Extension: content script (VirusTotalScanner.scanUrl) and background page
\* (BackgroundService.scanUrl) exchanging scan messages
\* ---------------------------------------------------------------------------
MaxReqs == 2
MaxTicks == 1

Reqs == 1..MaxReqs
Urls == {1, 2}

\* What POST {apiEndpoint}/scan can give: fetch rejects, !response.ok, or a body.
BackendOutcomes == {"network", "http", "ok"}
\* response.json(): unparsable, or an ApiResponse with or without success / data.
\* The backend's data is a ScanSummary, which always has last_analysis_stats.
BgBodies ==
    {[valid |-> FALSE, success |-> FALSE, data |-> FALSE, stats |-> FALSE]}
    \cup {x \in [valid : {TRUE}, success : BOOLEAN, data : BOOLEAN, stats : BOOLEAN] :
           x.stats = x.data}

ExtIdle ==
    /\ csScanning = FALSE /\ csSent = 0 /\ csIgnored = 0
    /\ reqUrl = [i \in Reqs |-> 0] /\ reqPc = [i \in Reqs |-> "unsent"]
    /\ reqHit = [i \in Reqs |-> FALSE] /\ reqOutcome = [i \in Reqs |-> "none"]
    /\ reqCalls = [i \in Reqs |-> 0]
    /\ bgCache = <<>> /\ bgClock = 0 /\ bgTicks = 0 /\ bgLastStored = [u \in Urls |-> 0]

\* Variant with an `if (!cache.has(url))` guard around the set.
BgSetEntryKeepFirst(c, k, now, res) ==
    IF k \in CacheKeys(c) THEN c ELSE Append(c, [key |-> k, ts |-> now, res |-> res])

\* this.cache.set(url, {result, timestamp: Date.now()}).
BgSetEntry(c, k, now, res) ==
    IF k \in CacheKeys(c)
    THEN [i \in DOMAIN c |-> IF c[i].key = k THEN [key |-> k, ts |-> now, res |-> res] ELSE c[i]]
    ELSE Append(c, [key |-> k, ts |-> now, res |-> res])

\* setCachedResult(url, result): set, then evict the oldest 100 past 1000 entries.
BgSetCachedResult(c, k, now, res) ==
    LET c1 == BgSetEntry(c, k, now, res)
        goneKeys == {e.key : e \in EvictedEntries(c1)}
    IN SelectSeq(c1, LAMBDA e : e.key \notin goneKeys)

\* Variant that caches any response carrying data.
CacheWorthyData(b) == b.data

\* `if (result.success && result.data) this.setCachedResult(url, result.data)`.
CacheWorthy(b) == b.success /\ b.data

ExtFrame == UNCHANGED <<scanVars, sumVars, hmVars, b64Vars, cacheVars, ctlVars>>

\* VirusTotalScanner.scanUrl: the body has no await, so it runs to completion at
\* once: guard, isScanning = true, sendMessage(message, callback), and the
\* finally block's isScanning = false, all before the callback can run.
CsScanUrl ==
    /\ csSent < MaxReqs
    /\ \E u \in Urls :
        IF csScanning
        THEN /\ csIgnored' = csIgnored + 1
             /\ UNCHANGED <<csSent, reqUrl, reqPc>>
        ELSE /\ csSent' = csSent + 1
             /\ reqUrl' = [reqUrl EXCEPT ![csSent + 1] = u]
             /\ reqPc' = [reqPc EXCEPT ![csSent + 1] = "sent"]
             /\ UNCHANGED csIgnored
    /\ csScanning' = FALSE
    /\ UNCHANGED <<reqHit, reqOutcome, reqCalls, bgCache, bgClock, bgTicks, bgLastStored>>
    /\ ExtFrame

\* Variant without the `return` after a cache hit.
BgAfterLookupNoReturn(hit) == "config"

\* `if (cached) return {success: true, data: cached, ...}`.
BgAfterLookup(hit) == IF hit THEN "responded" ELSE "config"

\* handleMessage -> scanUrl: getCachedResult(url) runs synchronously on arrival.
BgReceive ==
    \E i \in Reqs :
        /\ reqPc[i] = "sent"
        /\ \E u \in {reqUrl[i]} :
            \E found \in {(u \in CacheKeys(bgCache))} :
            \E age \in {IF found
                        THEN bgClock - bgCache[CHOOSE k \in DOMAIN bgCache : bgCache[k].key = u].ts
                        ELSE 0} :
            \E hit \in {found /\ Fresh(age)} :
               /\ bgCache' = IF found /\ ~hit THEN SelectSeq(bgCache, LAMBDA e : e.key /= u)
                             ELSE bgCache
               /\ reqHit' = [reqHit EXCEPT ![i] = hit]
               /\ reqPc' = [reqPc EXCEPT ![i] = BgAfterLookup(hit)]
               /\ reqOutcome' = IF hit THEN [reqOutcome EXCEPT ![i] = "cache"] ELSE reqOutcome
        /\ UNCHANGED <<csScanning, csSent, csIgnored, reqUrl, reqCalls, bgClock, bgTicks,
                       bgLastStored>>
        /\ ExtFrame

\* await this.getConfig().
BgConfig ==
    \E i \in Reqs :
        /\ reqPc[i] = "config"
        /\ reqPc' = [reqPc EXCEPT ![i] = "fetch"]
        /\ UNCHANGED <<csScanning, csSent, csIgnored, reqUrl, reqHit, reqOutcome, reqCalls,
                       bgCache, bgClock, bgTicks, bgLastStored>>
        /\ ExtFrame

\* await fetch(endpoint, POST {url}): a rejection goes to the catch block.
BgFetch ==
    \E i \in Reqs, o \in BackendOutcomes :
        /\ reqPc[i] = "fetch"
        /\ reqCalls' = [reqCalls EXCEPT ![i] = reqCalls[i] + 1]
        /\ reqPc' = [reqPc EXCEPT ![i] = CASE o = "network" -> "responded"
                                          [] o = "http" -> "errtext"
                                          [] o = "ok" -> "json"]
        /\ reqOutcome' = IF o = "network" THEN [reqOutcome EXCEPT ![i] = "fail"] ELSE reqOutcome
        /\ UNCHANGED <<csScanning, csSent, csIgnored, reqUrl, reqHit, bgCache, bgClock,
                       bgTicks, bgLastStored>>
        /\ ExtFrame

\* !response.ok: await response.text(), then throw; the catch returns success: false.
BgErrText ==
    \E i \in Reqs :
        /\ reqPc[i] = "errtext"
        /\ reqPc' = [reqPc EXCEPT ![i] = "responded"]
        /\ reqOutcome' = [reqOutcome EXCEPT ![i] = "fail"]
        /\ UNCHANGED <<csScanning, csSent, csIgnored, reqUrl, reqHit, reqCalls, bgCache,
                       bgClock, bgTicks, bgLastStored>>
        /\ ExtFrame

\* showScanNotification(result.data) reads result.last_analysis_stats.malicious:
\* a TypeError when the data has no last_analysis_stats.
NotificationThrows(b, notify) == notify /\ b.success /\ b.data /\ ~b.stats

\* await response.json(), cache a successful result, notify when
\* config.showNotifications, return the ApiResponse; a throw in any of these
\* goes to the catch block, which returns success: false.
BgJson ==
    \E i \in Reqs, b \in BgBodies, notify \in BOOLEAN :
        /\ reqPc[i] = "json"
        /\ reqPc' = [reqPc EXCEPT ![i] = "responded"]
        /\ reqOutcome' = [reqOutcome EXCEPT ![i] =
                             IF b.valid /\ b.success /\ ~NotificationThrows(b, notify)
                             THEN "ok" ELSE "fail"]
        /\ IF b.valid /\ CacheWorthy(b)
           THEN /\ bgCache' = BgSetCachedResult(bgCache, reqUrl[i], bgClock, i)
                /\ bgLastStored' = [bgLastStored EXCEPT ![reqUrl[i]] = i]
           ELSE UNCHANGED <<bgCache, bgLastStored>>
        /\ UNCHANGED <<csScanning, csSent, csIgnored, reqUrl, reqHit, reqCalls, bgClock, bgTicks>>
        /\ ExtFrame

\* sendResponse(response) reaches the content script's sendMessage callback.
CsDeliver ==
    \E i \in Reqs :
        /\ reqPc[i] = "responded"
        /\ reqPc' = [reqPc EXCEPT ![i] = "delivered"]
        /\ UNCHANGED <<csScanning, csSent, csIgnored, reqUrl, reqHit, reqOutcome, reqCalls,
                       bgCache, bgClock, bgTicks, bgLastStored>>
        /\ ExtFrame

\* Time passes in the background page.
BgTick ==
    /\ bgTicks < MaxTicks
    /\ \E dt \in {1000, CacheDurationMs} : bgClock' = bgClock + dt
    /\ bgTicks' = bgTicks + 1
    /\ UNCHANGED <<csScanning, csSent, csIgnored, reqUrl, reqPc, reqHit, reqOutcome, reqCalls,
                   bgCache, bgLastStored>>
    /\ ExtFrame

\* ---------------------------------------------------------------------------
\* HTTP layer: request validation (ScanUrlDto) and VirusTotalController.scanUrl
\* ---------------------------------------------------------------------------
\* Error messages are sequences of one-character strings.
DigitChars == <<"0", "1", "2", "3", "4", "5", "6", "7", "8", "9">>

\* `${res.status}` for a three-digit HTTP status.
StatusDigits(n) ==
    <<DigitChars[(n \div 100) + 1], DigitChars[((n \div 10) % 10) + 1], DigitChars[(n % 10) + 1]>>

\* String.prototype.includes.
Includes(s, t) == \E k \in 0..(Len(s) - Len(t)) : SubSeq(s, k + 1, k + Len(t)) = t

\* res.statusText of the upstream statuses considered.
StatusText(code) ==
    CASE code = 301 -> <<"M", "o", "v", "e", "d", " ", "P", "e", "r", "m", "a", "n", "e", "n", "t", "l", "y">>
      [] code = 400 -> <<"B", "a", "d", " ", "R", "e", "q", "u", "e", "s", "t">>
      [] code = 401 -> <<"U", "n", "a", "u", "t", "h", "o", "r", "i", "z", "e", "d">>
      [] code = 403 -> <<"F", "o", "r", "b", "i", "d", "d", "e", "n">>
      [] code = 429 -> <<"T", "o", "o", " ", "M", "a", "n", "y", " ", "R", "e", "q", "u", "e", "s", "t", "s">>
      [] code = 500 -> <<"I", "n", "t", "e", "r", "n", "a", "l", " ", "S", "e", "r", "v", "e", "r", " ", "E", "r", "r", "o", "r">>
      [] code = 503 -> <<"S", "e", "r", "v", "i", "c", "e", " ", "U", "n", "a", "v", "a", "i", "l", "a", "b", "l", "e">>
      [] code = 504 -> <<"G", "a", "t", "e", "w", "a", "y", " ", "T", "i", "m", "e", "o", "u", "t">>

UpstreamStatuses == {301, 400, 401, 403, 429, 500, 503, 504}

\* Body text of a failed upstream response: empty, a JSON error, or a plain-text
\* gateway or proxy message.
UpstreamTexts == {<<>>, <<"{", "\"", "e", "r", "r", "o", "r", "\"", ":", "{", "\"", "c", "o", "d", "e", "\"", ":", "\"", "Q", "u", "o", "t", "a", "E", "x", "c", "e", "e", "d", "e", "d", "E", "r", "r", "o", "r", "\"", "}", "}">>,
                  <<"u", "p", "s", "t", "r", "e", "a", "m", " ", "r", "e", "q", "u", "e", "s", "t", " ", "T", "i", "m", "e", "d", " ", "o", "u", "t">>, <<"H", "T", "T", "P", " ", "4", "2", "9", " ", "f", "r", "o", "m", " ", "p", "r", "o", "x", "y">>,
                  <<"H", "T", "T", "P", " ", "4", "0", "3", " ", "b", "l", "o", "c", "k", "e", "d">>}

\* data.attributes.status values outside queued / running / completed.
UnexpectedStatuses == {<<"f", "a", "i", "l", "e", "d">>, <<"H", "T", "T", "P", " ", "4", "2", "9">>, <<"H", "T", "T", "P", " ", "4", "0", "3">>, <<"T", "i", "m", "e", "d", " ", "o", "u", "t">>}

\* Body text of a 2xx response that is not JSON: empty, an HTML page, or plain
\* text from a gateway or proxy.
UnparsableTexts == {<<"H", "T", "T", "P", " ", "4", "2", "9">>, <<>>, <<"<", "h", "t", "m", "l", ">">>, <<"T", "i", "m", "e", "d", " ", "o", "u", "t">>, <<"H", "T", "T", "P", " ", "4", "0", "3">>}

\* The error a VirusTotalService.scanUrl call ends with, or "ok"; text is the
\* body text of a failed upstream response or of an unparsable one, or the
\* unexpected analysis status.
ServiceResults ==
    {[kind |-> "ok", code |-> 0, text |-> <<>>]}
    \cup {[kind |-> "http", code |-> c, text |-> t] : c \in UpstreamStatuses, t \in UpstreamTexts}
    \cup {[kind |-> "parse", code |-> 0, text |-> t] : t \in UnparsableTexts}
    \cup {[kind |-> "unexpected", code |-> 0, text |-> t] : t \in UnexpectedStatuses}
    \cup {[kind |-> k, code |-> 0, text |-> <<>>] :
           k \in {"network", "missing_id", "timeout", "final_missing"}}

\* Status fetches waitForAnalysis can start: each after a sleep of intervalMs,
\* all before timeoutMs has elapsed.
PollFetchCounts == 1..(TimeoutMs \div IntervalMs)

\* Upstream calls scanUrl makes before ending with r: pre-scan GET, POST,
\* n status GETs, post-scan GET; an HTTP, network or parse error can end any of them.
UpstreamCallCounts(r) ==
    LET afterPoll == {2 + n : n \in PollFetchCounts}
        afterPost == {3 + n : n \in PollFetchCounts}
    IN CASE r.kind \in {"ok", "final_missing"} -> afterPost
         [] r.kind \in {"unexpected", "timeout"} -> afterPoll
         [] r.kind = "missing_id" -> {2}
         [] OTHER -> {1, 2} \cup afterPoll \cup afterPost

\* error.message of each failure, as thrown by fetch, fetchJson, submitUrl,
\* waitForAnalysis and scanUrl.
ErrorMessage(r) ==
    CASE r.kind = "http" ->
            <<"H", "T", "T", "P", " ">> \o StatusDigits(r.code) \o <<":", " ">>
            \o (IF r.text = <<>> THEN StatusText(r.code) ELSE r.text)
      [] r.kind = "network" -> <<"f", "e", "t", "c", "h", " ", "f", "a", "i", "l", "e", "d">>
      [] r.kind = "parse" ->
            IF r.text = <<>> THEN <<"U", "n", "e", "x", "p", "e", "c", "t", "e", "d", " ", "e", "n", "d", " ", "o", "f", " ", "J", "S", "O", "N", " ", "i", "n", "p", "u", "t">>
            ELSE <<"U", "n", "e", "x", "p", "e", "c", "t", "e", "d", " ", "t", "o", "k", "e", "n", " ", "'">> \o <<Head(r.text)>> \o <<"'", ",", " ", "\"">>
                 \o r.text \o <<"\"", " ", "i", "s", " ", "n", "o", "t", " ", "v", "a", "l", "i", "d", " ", "J", "S", "O", "N">>
      [] r.kind = "missing_id" -> <<"N", "o", " ", "a", "n", "a", "l", "y", "s", "i", "s", " ", "I", "D", " ", "r", "e", "t", "u", "r", "n", "e", "d", " ", "f", "r", "o", "m", " ", "V", "i", "r", "u", "s", "T", "o", "t", "a", "l", ".">>
      [] r.kind = "unexpected" -> <<"U", "n", "e", "x", "p", "e", "c", "t", "e", "d", " ", "a", "n", "a", "l", "y", "s", "i", "s", " ", "s", "t", "a", "t", "u", "s", ":", " ">> \o r.text
      [] r.kind = "timeout" -> <<"T", "i", "m", "e", "d", " ", "o", "u", "t", " ", "w", "a", "i", "t", "i", "n", "g", " ", "f", "o", "r", " ", "a", "n", "a", "l", "y", "s", "i", "s", " ", "t", "o", " ", "c", "o", "m", "p", "l", "e", "t", "e", ".">>
      [] r.kind = "final_missing" -> <<"F", "i", "n", "a", "l", " ", "r", "e", "p", "o", "r", "t", " ", "n", "o", "t", " ", "f", "o", "u", "n", "d", " ", "a", "f", "t", "e", "r", " ", "a", "n", "a", "l", "y", "s", "i", "s", ".">>
      [] r.kind = "ok" -> <<>>

\* The status VirusTotalController.scanUrl answers with: 201 on success, else the
\* first matching error.message check, else 500.
ControllerStatus(r) ==
    IF r.kind = "ok" THEN 201
    ELSE LET msg == ErrorMessage(r) IN
         IF Includes(msg, <<"H", "T", "T", "P", " ", "4", "0", "3">>) THEN 403
         ELSE IF Includes(msg, <<"H", "T", "T", "P", " ", "4", "2", "9">>) THEN 429
         ELSE IF Includes(msg, <<"T", "i", "m", "e", "d", " ", "o", "u", "t">>) THEN 408
         ELSE 500

\* Request bodies: two well-formed URLs, a non-empty non-URL and an empty string,
\* described by what the ScanUrlDto decorators test.
CtlInputs ==
    {[id |-> 1, nonEmpty |-> TRUE, isUrl |-> TRUE], [id |-> 2, nonEmpty |-> TRUE, isUrl |-> TRUE],
     [id |-> 3, nonEmpty |-> TRUE, isUrl |-> FALSE], [id |-> 4, nonEmpty |-> FALSE, isUrl |-> FALSE]}

NoCtlResult == [kind |-> "none", code |-> 0, text |-> <<>>]

CtlIdle ==
    /\ ctlIn = [id |-> 0, nonEmpty |-> FALSE, isUrl |-> FALSE] /\ ctlPc = "idle"
    /\ ctlUpstream = 0 /\ ctlResult = NoCtlResult /\ ctlStatus = 0

CtlFrame == UNCHANGED <<scanVars, sumVars, hmVars, b64Vars, cacheVars, extVars>>

\* ScanUrlDto: @IsUrl() and @IsNotEmpty() on url.
ScanUrlDtoValid(in) == in.nonEmpty /\ in.isUrl

\* Variant with no validation pipe: the handler runs on any body.
ValidateRequestNone ==
    /\ ctlPc = "request"
    /\ ctlPc' = "service"
    /\ UNCHANGED <<ctlIn, ctlUpstream, ctlResult, ctlStatus>>
    /\ CtlFrame

\* The validation pipe in front of the controller: a body failing ScanUrlDto is
\* answered 400 before the handler runs.
ValidateRequest ==
    /\ ctlPc = "request"
    /\ IF ScanUrlDtoValid(ctlIn)
       THEN ctlPc' = "service" /\ UNCHANGED <<ctlResult, ctlStatus>>
       ELSE /\ ctlPc' = "done" /\ ctlStatus' = 400
            /\ ctlResult' = [kind |-> "validation", code |-> 0, text |-> <<>>]
    /\ UNCHANGED <<ctlIn, ctlUpstream>>
    /\ CtlFrame

\* await virusTotalService.scanUrl(url): it makes its upstream calls and resolves
\* or rejects with one of ServiceResults.
CallService ==
    /\ ctlPc = "service"
    /\ \E r \in ServiceResults :
        /\ ctlResult' = r
        /\ \E n \in UpstreamCallCounts(r) : ctlUpstream' = ctlUpstream + n
    /\ ctlPc' = "respond"
    /\ UNCHANGED <<ctlIn, ctlStatus>>
    /\ CtlFrame

\* The controller's return or HttpException.
Respond ==
    /\ ctlPc = "respond"
    /\ ctlStatus' = ControllerStatus(ctlResult)
    /\ ctlPc' = "done"
    /\ UNCHANGED <<ctlIn, ctlUpstream, ctlResult>>
    /\ CtlFrame

\* Pre-scan report: kind "unset" before the fetch, "null" when not found.
UnsetPre == [kind |-> "unset", hasAttr |-> FALSE, lad |-> Undef, lsd |-> Undef]
NullPre == [kind |-> "null", hasAttr |-> FALSE, lad |-> Undef, lsd |-> Undef]
NoAttrPre == [kind |-> "body", hasAttr |-> FALSE, lad |-> Undef, lsd |-> Undef]

LadVals == {Undef, NowSec + DaySec} \cup {NowSec - d * DaySec : d \in {29, 30, 31, 40}}
LsdVals == {Undef, NowSec + 60} \cup {NowSec - k : k \in {0, 59, 60, 3600, DaySec + 3600, 40 * DaySec}}

PreReports ==
    {NullPre, NoAttrPre}
    \cup {[kind |-> "body", hasAttr |-> TRUE, lad |-> l, lsd |-> s] : l \in LadVals, s \in LsdVals}

\* Post-scan report attributes (data.attributes present? and its fields).
NoAttrPost == [hasAttr |-> FALSE, hasStats |-> FALSE, harmless |-> Undef, mal |-> Undef,
               sus |-> Undef, timeout |-> Undef, undetected |-> Undef,
               hasVotes |-> FALSE, vh |-> Undef, vm |-> Undef,
               lad |-> Undef, lsd |-> Undef, ts |-> Undef]

PostReports ==
    {NoAttrPost}
    \cup {[hasAttr |-> TRUE, hasStats |-> hs, harmless |-> 2, mal |-> m, sus |-> s,
           timeout |-> 2, undetected |-> 2, hasVotes |-> hv, vh |-> 2, vm |-> v,
           lad |-> pl, lsd |-> Undef, ts |-> Undef] :
           hs \in BOOLEAN, m \in {Undef, 0, 1}, s \in {Undef, 0, 1},
           hv \in BOOLEAN, v \in {Undef, 0, 1}, pl \in {Undef, NowSec - 40 * DaySec}}

\* Every field missing or present, for the defaulting rules.
PostReportsFull ==
    {NoAttrPost}
    \cup {[hasAttr |-> TRUE, hasStats |-> hs, harmless |-> h, mal |-> m, sus |-> s,
           timeout |-> t, undetected |-> u, hasVotes |-> hv, vh |-> a, vm |-> b,
           lad |-> l1, lsd |-> l2, ts |-> k] :
           hs \in BOOLEAN, h \in {Undef, 2}, m \in {Undef, 2}, s \in {Undef, 2},
           t \in {Undef, 2}, u \in {Undef, 2}, hv \in BOOLEAN, a \in {Undef, 2},
           b \in {Undef, 2}, l1 \in {Undef, 0, NowSec - 3600},
           l2 \in {Undef, 0, NowSec - 3600}, k \in {Undef, 0, 4}}

\* Variant without the `|| 0` on each stat field.
StatNoDefault(p, x) == IF p.hasAttr /\ p.hasStats THEN x ELSE 0

\* finalAttr.last_analysis_stats || {zeros}, then `|| 0` per field.
Stat(p, x) == IF p.hasAttr /\ p.hasStats THEN OrZero(x) ELSE 0
StatMal(p) == Stat(p, p.mal)
StatSus(p) == Stat(p, p.sus)
\* finalAttr.total_votes || {harmless: 0, malicious: 0}, then `|| 0` per field.
VoteHarmless(p) == IF p.hasAttr /\ p.hasVotes THEN OrZero(p.vh) ELSE 0
VoteMalicious(p) == IF p.hasAttr /\ p.hasVotes THEN OrZero(p.vm) ELSE 0

NoSummary ==
    [done |-> FALSE, safe |-> FALSE, wasStale |-> FALSE, staleAgeHuman |-> "",
     lastSubmittedAgo |-> "", ladIso |-> "", lsdIso |-> "", tsNull |-> TRUE, ts |-> 0,
     harmless |-> 0, mal |-> 0, sus |-> 0, timeout |-> 0, undetected |-> 0,
     vh |-> 0, vm |-> 0]

\* Variant reading last_analysis_date for the submission age.
SubmittedAgoFromLad(pre, now) ==
    IF pre.kind = "body" /\ pre.hasAttr /\ Truthy(pre.lad)
    THEN HumanizeDuration(FALSE, MinusSec(now, pre.lad)) ELSE "unknown"

\* last_submitted_ago: humanizeDuration(lastSubmittedAgoMs) when
\* initialAttr?.last_submission_date is set, else 'unknown'.
SubmittedAgo(pre, now) ==
    IF pre.kind = "body" /\ pre.hasAttr /\ Truthy(pre.lsd)
    THEN HumanizeDuration(FALSE, MinusSec(now, pre.lsd)) ELSE "unknown"

\* Variant giving the humanized age whenever a pre-scan date exists.
StaleAgeHumanWhenDated(wasStale, hasLad, staleAge) ==
    IF hasLad THEN HumanizeDuration(FALSE, staleAge) ELSE "fresh"

\* stale_age_human: wasStale ? humanizeDuration(staleAgeMs) : 'fresh'.
StaleAgeHuman(wasStale, hasLad, staleAge) ==
    IF wasStale THEN HumanizeDuration(FALSE, staleAge) ELSE "fresh"

\* The ScanSummary literal built by summarize, given its unsafe verdict.
MkSummary(pre, p, now, unsafe) ==
    LET initialAttr == pre.kind = "body" /\ pre.hasAttr
        hasLad == initialAttr /\ Truthy(pre.lad)
        staleAge == MinusSec(now, pre.lad)
        wasStale == hasLad /\ GreaterThanSec(staleAge, 30 * DaySec)
        tsMissing == ~p.hasAttr \/ p.ts = Undef
    IN [done |-> TRUE,
        safe |-> ~unsafe,
        wasStale |-> wasStale,
        staleAgeHuman |-> StaleAgeHuman(wasStale, hasLad, staleAge),
        lastSubmittedAgo |-> SubmittedAgo(pre, now),
        ladIso |-> ToIso(IF p.hasAttr THEN p.lad ELSE Undef),
        lsdIso |-> ToIso(IF p.hasAttr THEN p.lsd ELSE Undef),
        tsNull |-> tsMissing,
        ts |-> IF tsMissing THEN 0 ELSE p.ts,
        harmless |-> Stat(p, p.harmless),
        mal |-> StatMal(p),
        sus |-> StatSus(p),
        timeout |-> Stat(p, p.timeout),
        undetected |-> Stat(p, p.undetected),
        vh |-> VoteHarmless(p),
        vm |-> VoteMalicious(p)]

\* VirusTotalService.summarize: unsafe iff engine detections.
SummarizeService(pre, p, now) == MkSummary(pre, p, now, StatMal(p) + StatSus(p) > 0)

\* summarize in src/src/index.ts: also unsafe on any malicious community vote.
SummarizeIndex(pre, p, now) ==
    MkSummary(pre, p, now, StatMal(p) + StatSus(p) > 0 \/ VoteMalicious(p) > 0)

Impls == {"service", "index"}
NowVals == {Ms(NowSec, 0), Ms(NowSec, 999)}

\* Report samples a scan run draws from.
PreSample == {[kind |-> "body", hasAttr |-> TRUE, lad |-> NowSec - 40 * DaySec,
               lsd |-> NowSec - 3600]}
PostSample == {NoAttrPost, [NoAttrPost EXCEPT !.hasAttr = TRUE, !.hasStats = TRUE, !.mal = 1]}

\* Variant that requires a pre-scan report.
PreReportRequired(res) == res.kind = "body"

\* The pre-scan getUrlReport call went through (null is tolerated).
PreReportOk(res) == res.kind /= "error"

\* `!value` for what fetchJson returned: null and falsy scalars are missing.
Missing(res) == res.kind \in {"null", "falsy"}

\* Variant without the `if (!finalReport)` check.
ReportMissingNever(res) == FALSE

\* `if (!finalReport) throw new Error('Final report not found after analysis.')`.
ReportMissing(res) == Missing(res)

\* 1) getUrlReport before submission: null (never analysed) is tolerated.
FetchPreReport ==
    /\ pc = "pre"
    /\ \E r \in Responses :
        LET res == FetchJson(r) IN
        /\ started' = Append(started, "pre")
        /\ preCalls' = preCalls + 1
        /\ lastReq' = r /\ lastRes' = res
        /\ IF ~PreReportOk(res)
           THEN Fail("pre", IF res.kind = "error" THEN res ELSE Err("pre_missing", 0, ""))
                /\ UNCHANGED sumPre
           ELSE /\ Succeed("pre") /\ UNCHANGED <<raised, scanErr, result>>
                /\ IF res.kind = "body" THEN sumPre' \in PreSample
                   ELSE sumPre' = [NullPre EXCEPT !.kind = res.kind]
    /\ UNCHANGED <<submitCalls, statusCalls, postCalls, sleeps, elapsed, lastStatus,
                   allPending, pollOutcome, submitResp, sumPost, sumNow, sumImpl, summary,
                   auxVars>>

\* 2) submitUrl: POST, then throw when the response carries no data.id.
SubmitUrl ==
    /\ pc = "submit"
    /\ \E r \in Responses, hasId \in BOOLEAN :
        LET res == FetchJson(r) IN
        /\ (res.kind /= "body" => hasId = FALSE)
        /\ started' = Append(started, "submit")
        /\ submitCalls' = submitCalls + 1
        /\ lastReq' = r /\ lastRes' = res
        /\ submitResp' = IF res.kind = "error" THEN "error"
                         ELSE IF res.kind /= "body" THEN res.kind
                         ELSE IF hasId THEN "id" ELSE "noid"
        /\ IF res.kind = "error"
           THEN Fail("submit", res)
           ELSE IF ~HasJobId(res, hasId)
           THEN Fail("submit", Err("missing_id", 0, ""))
           ELSE Succeed("submit") /\ UNCHANGED <<raised, scanErr, result>>
    /\ UNCHANGED <<preCalls, statusCalls, postCalls, sleeps, elapsed, lastStatus,
                   allPending, pollOutcome, sumVars, auxVars>>

\* 3) waitForAnalysis entry: start = Date.now().
PollStart ==
    /\ pc = "poll"
    /\ started' = Append(started, "poll")
    /\ elapsed' = 0
    /\ pc' = "poll_check"
    /\ UNCHANGED <<stepState, preCalls, submitCalls, statusCalls, postCalls, sleeps,
                   lastStatus, allPending, pollOutcome, lastReq, lastRes, submitResp,
                   raised, scanErr, result, sumVars, auxVars>>

\* Variant of the loop condition with `<=`.
LoopContinuesInclusive(el) == el <= TimeoutMs

\* `Date.now() - start < timeoutMs`, the while condition of waitForAnalysis.
LoopContinues(el) == el < TimeoutMs

\* while (Date.now() - start < timeoutMs) ... ; throw timeout.
PollCheck ==
    /\ pc = "poll_check"
    /\ IF LoopContinues(elapsed)
       THEN pc' = "poll_fetch"
            /\ UNCHANGED <<stepState, pollOutcome, raised, scanErr, result>>
       ELSE pollOutcome' = "timeout" /\ Fail("poll", Err("timeout", 0, ""))
    /\ UNCHANGED <<started, preCalls, submitCalls, statusCalls, postCalls, sleeps,
                   elapsed, lastStatus, allPending, lastReq, lastRes, submitResp, sumVars, auxVars>>

\* One loop body: fetch the analysis, read data.attributes.status, decide.
PollFetch ==
    /\ pc = "poll_fetch"
    /\ statusCalls < FetchCap
    /\ \E r \in Responses, lat \in Latencies :
        LET res == FetchJson(r) IN
        \E st \in (IF res.kind = "body" THEN JobStatuses ELSE {"absent"}) :
        /\ statusCalls' = statusCalls + 1
        /\ elapsed' = elapsed + lat
        /\ lastReq' = r /\ lastRes' = res
        /\ lastStatus' = IF res.kind = "error" THEN "error" ELSE st
        /\ allPending' = (allPending /\ res.kind /= "error" /\ st \in {"queued", "running"})
        /\ IF res.kind = "error"
           THEN pollOutcome' = "fetch_error" /\ Fail("poll", res)
           ELSE CASE PollDecision(st) = "return" ->
                        /\ pollOutcome' = "completed"
                        /\ Succeed("poll")
                        /\ UNCHANGED <<raised, scanErr, result>>
                  [] PollDecision(st) = "throw" ->
                        /\ pollOutcome' = "unexpected"
                        /\ Fail("poll", Err("unexpected", 0, st))
                  [] PollDecision(st) = "sleep" ->
                        /\ pc' = "poll_sleep"
                        /\ UNCHANGED <<stepState, pollOutcome, raised, scanErr, result>>
    /\ UNCHANGED <<started, preCalls, submitCalls, postCalls, sleeps, submitResp, sumVars, auxVars>>

\* Variant that takes `start` afresh on every iteration.
AfterSleepRestart(el, d) == IntervalMs + d

\* Elapsed time after a sleep of intervalMs that fired d ms late.
AfterSleep(el, d) == el + IntervalMs + d

\* await this.sleep(intervalMs): setTimeout fires no earlier than intervalMs.
PollSleep ==
    /\ pc = "poll_sleep"
    /\ \E d \in SleepDelays :
        /\ elapsed' = AfterSleep(elapsed, d)
        /\ sleeps' = sleeps + 1
        /\ pc' = "poll_check"
    /\ UNCHANGED <<started, stepState, preCalls, submitCalls, statusCalls, postCalls,
                   lastStatus, allPending, pollOutcome, lastReq, lastRes, submitResp,
                   raised, scanErr, result, sumVars, auxVars>>

\* 4) getUrlReport after completion; null -> 'Final report not found'.
FetchPostReport ==
    /\ pc = "post"
    /\ \E r \in Responses :
        LET res == FetchJson(r) IN
        /\ started' = Append(started, "post")
        /\ postCalls' = postCalls + 1
        /\ lastReq' = r /\ lastRes' = res
        /\ IF res.kind = "error"
           THEN Fail("post", res) /\ UNCHANGED sumPost
           ELSE IF ReportMissing(res)
           THEN Fail("post", Err("post_missing", 0, "")) /\ UNCHANGED sumPost
           ELSE /\ Succeed("post") /\ UNCHANGED <<raised, scanErr, result>>
                /\ sumPost' \in (IF res.kind = "body" THEN PostSample ELSE {NoAttrPost})
    /\ UNCHANGED <<preCalls, submitCalls, statusCalls, sleeps, elapsed, lastStatus,
                   allPending, pollOutcome, submitResp, sumPre, sumNow, sumImpl, summary,
                   auxVars>>

\* 5) summarize and return the summary.
SummarizeStep ==
    /\ pc = "summarize"
    /\ started' = Append(started, "summarize")
    /\ Succeed("summarize")
    /\ result' = "summary"
    /\ summary' = SummarizeService(sumPre, sumPost, sumNow)
    /\ UNCHANGED <<preCalls, submitCalls, statusCalls, postCalls, sleeps, elapsed,
                   lastStatus, allPending, pollOutcome, lastReq, lastRes, submitResp,
                   raised, scanErr, sumPre, sumPost, sumNow, sumImpl, auxVars>>

Summarize ==
    /\ summary = NoSummary
    /\ summary' = IF sumImpl = "service" THEN SummarizeService(sumPre, sumPost, sumNow)
                  ELSE SummarizeIndex(sumPre, sumPost, sumNow)
    /\ UNCHANGED <<scanVars, auxVars, sumPre, sumPost, sumNow, sumImpl>>

NoOp == [kind |-> "none", key |-> 0, found |-> FALSE, age |-> 0, hit |-> FALSE,
         sizeAfterSet |-> 0, evicted |-> {}]

AuxIdle ==
    /\ hmIn = [isNull |-> TRUE, ms |-> Ms(0, 0)] /\ hmOut = ""
    /\ b64In = <<>> /\ b64Out = [done |-> FALSE, chars |-> <<>>]
    /\ cache = <<>> /\ clock = 0 /\ cacheOps = 0 /\ lastOp = NoOp /\ ExtIdle /\ CtlIdle

MaxMult == 12

\* humanizeDuration arguments: null, values around every bucket edge, and a spread.
HmBoundaries == {0, 60, 3600, DaySec, 30 * DaySec, 60 * DaySec}
HmInputs ==
    {[isNull |-> TRUE, ms |-> Ms(0, 0)]}
    \cup {[isNull |-> FALSE, ms |-> Ms(b + d, r)] :
           b \in HmBoundaries, d \in -2..2, r \in {0, 999}}
    \cup {[isNull |-> FALSE, ms |-> Ms(k * 123457, 500)] : k \in 0..MaxMult}
    \cup {[isNull |-> FALSE, ms |-> Ms(40 * DaySec, 0)]}

Humanize ==
    /\ hmOut = ""
    /\ hmOut' = HumanizeDuration(hmIn.isNull, hmIn.ms)
    /\ UNCHANGED <<scanVars, sumVars, hmIn, b64Vars, cacheVars, extVars, ctlVars>>

SumIdle ==
    /\ sumPre = UnsetPre /\ sumPost = NoAttrPost /\ sumNow = Ms(NowSec, 0)
    /\ sumImpl = "service" /\ summary = NoSummary

Init == ScanInit /\ SumIdle /\ AuxIdle

Next ==
    \/ FetchPreReport
    \/ SubmitUrl
    \/ PollStart
    \/ PollCheck
    \/ PollFetch
    \/ PollSleep
    \/ FetchPostReport
    \/ SummarizeStep

Spec == Init /\ [][Next]_vars

FairSpec == Spec /\ WF_vars(Next)

\* summarize applied to every bounded post-scan report, by either implementation.
SumInit ==
    /\ ScanInit
    /\ sumPre \in PreReports /\ sumPost \in PostReports /\ sumNow \in NowVals
    /\ sumImpl \in Impls /\ summary = NoSummary
    /\ AuxIdle

SumSpec == SumInit /\ [][Summarize]_vars

\* summarize applied to post-scan reports with every field missing or present.
DefaultsInit ==
    /\ ScanInit
    /\ sumPre = NullPre /\ sumPost \in PostReportsFull /\ sumNow = Ms(NowSec, 0)
    /\ sumImpl \in Impls /\ summary = NoSummary
    /\ AuxIdle

DefaultsSpec == DefaultsInit /\ [][Summarize]_vars

\* humanizeDuration applied to every bounded argument.
HumanInit ==
    /\ ScanInit /\ SumIdle
    /\ hmIn \in HmInputs /\ hmOut = ""
    /\ b64In = <<>> /\ b64Out = [done |-> FALSE, chars |-> <<>>]
    /\ cache = <<>> /\ clock = 0 /\ cacheOps = 0 /\ lastOp = NoOp /\ ExtIdle /\ CtlIdle

HumanSpec == HumanInit /\ [][Humanize]_vars

\* b64url applied to every bounded string.
B64Init ==
    /\ ScanInit /\ SumIdle
    /\ hmIn = [isNull |-> TRUE, ms |-> Ms(0, 0)] /\ hmOut = ""
    /\ b64In \in B64Inputs /\ b64Out = [done |-> FALSE, chars |-> <<>>]
    /\ cache = <<>> /\ clock = 0 /\ cacheOps = 0 /\ lastOp = NoOp /\ ExtIdle /\ CtlIdle

B64Spec == B64Init /\ [][Encode]_vars

\* Cache reads and writes from full and nearly full caches.
CacheInit ==
    /\ ScanInit /\ SumIdle
    /\ hmIn = [isNull |-> TRUE, ms |-> Ms(0, 0)] /\ hmOut = ""
    /\ b64In = <<>> /\ b64Out = [done |-> FALSE, chars |-> <<>>]
    /\ cache \in InitialCaches /\ clock = CacheStartMs /\ cacheOps = 0 /\ lastOp = NoOp
    /\ ExtIdle /\ CtlIdle

CacheNext == CachePut \/ CacheGet

CacheSpec == CacheInit /\ [][CacheNext]_vars

\* Content script and background page, from an empty cache.
ExtNext ==
    \/ CsScanUrl
    \/ BgReceive
    \/ BgConfig
    \/ BgFetch
    \/ BgErrText
    \/ BgJson
    \/ CsDeliver
    \/ BgTick

ExtSpec == Init /\ [][ExtNext]_vars

\* One POST /api/virustotal/scan request per behaviour.
CtlInit ==
    /\ ScanInit /\ SumIdle
    /\ hmIn = [isNull |-> TRUE, ms |-> Ms(0, 0)] /\ hmOut = ""
    /\ b64In = <<>> /\ b64Out = [done |-> FALSE, chars |-> <<>>]
    /\ cache = <<>> /\ clock = 0 /\ cacheOps = 0 /\ lastOp = NoOp /\ ExtIdle
    /\ ctlIn \in CtlInputs /\ ctlPc = "request"
    /\ ctlUpstream = 0 /\ ctlResult = NoCtlResult /\ ctlStatus = 0

CtlNext == ValidateRequest \/ CallService \/ Respond

CtlSpec == CtlInit /\ [][CtlNext]_vars

\* ---------------------------------------------------------------------------
\* Properties
\* ---------------------------------------------------------------------------

\* C1: summarize gives safe exactly when the post-scan malicious + suspicious
\* engine counts (missing counted as 0) sum to 0; community votes never flip it.
C1_SafeIffNoDetections ==
    summary.done =>
        (summary.safe <=>
            (IF sumPost.hasAttr /\ sumPost.hasStats THEN OrZero(sumPost.mal) + OrZero(sumPost.sus) ELSE 0) = 0)

\* C2: scan runs pre-scan fetch, submit, poll, post-scan fetch, summarize in
\* this order, each only after the previous succeeded; a failing step ends the
\* scan with its error and no later step or upstream call happens.
C2_StepsInOrder ==
    /\ started = SubSeq(Order, 1, Len(started))
    /\ \A i \in 1..(Len(started) - 1) : stepState[started[i]] = "ok"
    /\ \A i \in 1..Len(started) : started[i] /= "poll" => stepState[started[i]] /= "idle"
    /\ (result = "error" => /\ Len(started) > 0
                             /\ stepState[started[Len(started)]] = "error"
                             /\ pc = "failed")
    /\ (result = "summary" => started = Order)
    /\ (stepState["submit"] = "idle" => submitCalls = 0)
    /\ (Len(started) < 3 => statusCalls = 0)
    /\ (stepState["post"] = "idle" => postCalls = 0)

C2_Witness == stepState["poll"] = "error" /\ pollOutcome = "fetch_error" /\ statusCalls > 1

\* C3: no retries inside one scan (one submission, one pre-scan and one
\* post-scan fetch at most) and every raised error reaches the caller unchanged.
C3_NoRetryNoSwallow ==
    /\ preCalls <= 1 /\ submitCalls <= 1 /\ postCalls <= 1
    /\ (raised /= NoErr => result = "error" /\ scanErr = raised)
    /\ (result = "error" => raised /= NoErr)

C3_Witness == scanErr.err = "http" /\ stepState["post"] = "error"

\* C4: a 'completed' status makes the poller return at once: no further status
\* fetch and no sleep afterwards, and none at all when the first check completes.
C4_CompletedReturnsAtOnce ==
    /\ [](lastStatus = "completed" => stepState["poll"] = "ok" /\ sleeps = statusCalls - 1)
    /\ [][lastStatus = "completed" => (statusCalls' = statusCalls /\ sleeps' = sleeps)]_vars

C4_Witness == lastStatus = "completed" /\ statusCalls = 1 /\ stepState["post"] /= "idle"

\* C5: a status other than queued/running/completed fails the poller at once
\* with an unexpected-status error naming it, with no sleep after that fetch.
C5_UnexpectedStatusFails ==
    lastStatus \notin {"none", "queued", "running", "completed", "absent", "error"} =>
        /\ pc = "failed"
        /\ scanErr = Err("unexpected", 0, lastStatus)
        /\ pollOutcome = "unexpected"
        /\ sleeps = statusCalls - 1

C5_Witness == lastStatus = "failed" /\ statusCalls > 1

\* C6: when every status fetch returned queued or running, the poller ends with
\* the timeout error, never with success.
C6_PendingTimesOut ==
    (pollOutcome /= "none" /\ allPending) =>
        (pollOutcome = "timeout" /\ scanErr = Err("timeout", 0, "") /\ stepState["poll"] = "error")

C6_Witness == pollOutcome = "timeout" /\ allPending /\ statusCalls > 0

\* C7: once started, waitForAnalysis always ends, having made at most
\* timeout/interval + 1 status fetches.
C7_PollerTerminates ==
    /\ (pc = "poll_check") ~> (pollOutcome /= "none")
    /\ [](statusCalls <= TimeoutMs \div IntervalMs + 1)

C7_Witness == pollOutcome = "timeout" /\ statusCalls = TimeoutMs \div IntervalMs

\* C8: a 404 on the job-status fetch fails the poller at once with a lookup
\* failure instead of being polled again.
C8_NotFoundStatusFails ==
    (statusCalls > 0 /\ postCalls = 0 /\ lastReq.http = 404) =>
        (pc = "failed" /\ pollOutcome = "fetch_error")

\* C9: fetchJson gives the body for a 2xx, null for exactly 404 and an error
\* carrying the status for any other non-2xx status.
C9_FetchMapping ==
    LET h == lastReq.http IN
    /\ (IsOk(h) /\ lastReq.body = "object" => lastRes = Body)
    /\ (IsOk(h) /\ lastReq.body = "null" => lastRes = Null)
    /\ (~IsOk(h) => (lastRes = Null <=> h = 404))
    /\ (lastRes.kind \in {"body", "falsy", "scalar"} => IsOk(h))
    /\ (h \notin {-1, 0, 404} /\ ~IsOk(h) => lastRes.kind = "error" /\ lastRes.code = h)

C9_Witness == lastReq.http = 429 /\ lastRes.kind = "error" /\ statusCalls > 0

\* C10: a submit response without a job id (also a null/404 one) fails the scan
\* with the missing-job-id error; nothing is resubmitted and no polling starts.
C10_MissingJobIdFails ==
    submitResp \in {"null", "falsy", "scalar", "noid"} =>
        /\ pc = "failed"
        /\ scanErr = Err("missing_id", 0, "")
        /\ submitCalls = 1
        /\ statusCalls = 0
        /\ stepState["poll"] = "idle"

C10_Witness == submitResp = "null" /\ pc = "failed"

\* C11: a null post-scan report after completion fails the scan with the
\* post-scan-report-missing error; no summary, no second fetch.
C11_PostMissingFails ==
    (postCalls > 0 /\ lastRes = Null) =>
        /\ pc = "failed"
        /\ scanErr = Err("post_missing", 0, "")
        /\ ~summary.done
        /\ stepState["summarize"] = "idle"
        /\ postCalls = 1

C11_Witness == postCalls = 1 /\ lastRes = Null /\ pc = "failed"

\* C12: a null pre-scan report does not abort the scan, which goes on to
\* submission; its summary is not stale, "fresh", with last_submitted_ago "unknown".
C12_NullPreTolerated ==
    /\ (preCalls = 1 /\ submitCalls = 0 /\ lastRes = Null) => (stepState["pre"] = "ok" /\ pc = "submit")
    /\ (summary.done /\ sumPre.kind = "null") =>
           (~summary.wasStale /\ summary.staleAgeHuman = "fresh" /\ summary.lastSubmittedAgo = "unknown")

C12_Witness == summary.done /\ sumPre.kind = "null"

\* C13: wasStale holds exactly when the pre-scan report has a
\* last_analysis_date and now minus it exceeds 30 days; post-scan dates play no part.
C13_StaleIffOlderThan30Days ==
    summary.done =>
        (summary.wasStale <=>
            (/\ sumPre.kind = "body" /\ sumPre.hasAttr /\ sumPre.lad /= Undef
             /\ \/ sumNow.s - sumPre.lad > 30 * DaySec
                \/ (sumNow.s - sumPre.lad = 30 * DaySec /\ sumNow.r > 0)))

C13_Witness == summary.wasStale /\ sumPre.lad = NowSec - 31 * DaySec /\ sumPost.lad = Undef

\* C14: last_submitted_ago is humanizeDuration(now - pre-scan
\* last_submission_date) when that date is present, else "unknown".
C14_SubmittedAgo ==
    summary.done =>
        summary.lastSubmittedAgo =
            IF sumPre.kind = "body" /\ sumPre.hasAttr /\ sumPre.lsd /= Undef
            THEN HumanizeDuration(FALSE, Ms(sumNow.s - sumPre.lsd, sumNow.r))
            ELSE "unknown"

C14_Witness == summary.done /\ sumPre.lsd = NowSec - 3600 /\ sumPre.lad /= Undef

\* C15: missing stats become 0, missing votes {0, 0}, missing dates and
\* times_submitted null; no summary field is left undefined.
C15_Defaults ==
    summary.done =>
        /\ \A f \in {"harmless", "mal", "sus", "timeout", "undetected"} :
               summary[f] = IF sumPost.hasAttr /\ sumPost.hasStats /\ sumPost[f] /= Undef
                            THEN sumPost[f] ELSE 0
        /\ \A f \in {"vh", "vm"} :
               summary[f] = IF sumPost.hasAttr /\ sumPost.hasVotes /\ sumPost[f] /= Undef
                            THEN sumPost[f] ELSE 0
        /\ ((~sumPost.hasAttr \/ sumPost.lad = Undef) => summary.ladIso = "null")
        /\ ((~sumPost.hasAttr \/ sumPost.lsd = Undef) => summary.lsdIso = "null")
        /\ ((~sumPost.hasAttr \/ sumPost.ts = Undef) => summary.tsNull)
        /\ ((sumPost.hasAttr /\ sumPost.ts /= Undef) => (~summary.tsNull /\ summary.ts = sumPost.ts))
        /\ summary.ladIso /= "" /\ summary.lsdIso /= ""
        /\ summary.staleAgeHuman /= "" /\ summary.lastSubmittedAgo /= ""

C15_Witness ==
    /\ summary.done /\ sumPost.hasAttr /\ sumPost.hasStats /\ sumPost.mal = Undef
    /\ ~sumPost.hasVotes /\ sumPost.ts = Undef /\ sumPost.lad = Undef

\* C16: humanizeDuration gives "unknown" for null or negative input, else the
\* first matching bucket: months (>= 30 days), days, hours, minutes, seconds.
C16_HumanizeBuckets ==
    hmOut /= "" =>
        LET s == hmIn.ms.s
            month == 30 * DaySec
        IN /\ (hmIn.isNull \/ s < 0) => hmOut = "unknown"
           /\ (~hmIn.isNull /\ s >= month) =>
                 hmOut = ToString(s \div month) \o (IF s \div month = 1 THEN " month " ELSE " months ")
                         \o ToString((s \div DaySec) - 30 * (s \div month)) \o "d"
           /\ (~hmIn.isNull /\ DaySec <= s /\ s < month) =>
                 hmOut = ToString(s \div DaySec) \o "d " \o ToString((s \div 3600) % 24) \o "h"
           /\ (~hmIn.isNull /\ 3600 <= s /\ s < DaySec) =>
                 hmOut = ToString(s \div 3600) \o "h " \o ToString((s \div 60) % 60) \o "m"
           /\ (~hmIn.isNull /\ 60 <= s /\ s < 3600) => hmOut = ToString(s \div 60) \o "m"
           /\ (~hmIn.isNull /\ 0 <= s /\ s < 60) => hmOut = ToString(s) \o "s"
           /\ (hmIn = [isNull |-> FALSE, ms |-> Ms(59, 999)]) => hmOut = "59s"
           /\ (hmIn = [isNull |-> FALSE, ms |-> Ms(60, 0)]) => hmOut = "1m"
           /\ (hmIn = [isNull |-> FALSE, ms |-> Ms(3600, 0)]) => hmOut = "1h 0m"
           /\ (hmIn = [isNull |-> FALSE, ms |-> Ms(40 * DaySec, 0)]) => hmOut = "1 month 10d"

C16_Witness == hmOut = "1 month 10d"

\* C17: pre-scan last_analysis_date 40 days ago and post-scan malicious = 1
\* give safe = false, wasStale = true and stale_age_human "1 month 10d".
C17_FortyDayScenario ==
    (/\ summary.done
     /\ sumPre.kind = "body" /\ sumPre.hasAttr /\ sumPre.lad = NowSec - 40 * DaySec
     /\ sumPost.hasAttr /\ sumPost.hasStats /\ sumPost.mal = 1) =>
        (~summary.safe /\ summary.wasStale /\ summary.staleAgeHuman = "1 month 10d")

C17_Witness ==
    /\ summary.done /\ sumPre.lad = NowSec - 40 * DaySec
    /\ sumPost.hasStats /\ sumPost.mal = 1 /\ sumPost.sus = 0

\* C18: b64url's output never contains '+', '/' or '=' (URL-safe, no padding).
C18_UrlSafeNoPadding ==
    b64Out.done => \A i \in DOMAIN b64Out.chars : b64Out.chars[i] \notin {"+", "/", "="}

C18_Witness ==
    /\ b64Out.done
    /\ \E i \in DOMAIN Base64(Utf8(b64In)) : Base64(Utf8(b64In))[i] = "+"
    /\ \E i \in DOMAIN Base64(Utf8(b64In)) : Base64(Utf8(b64In))[i] = "="

\* C19: a put that takes the cache to 1001 entries evicts exactly 100 entries,
\* none newer than any kept one, leaving 901 and keeping the entry just stored.
C19_EvictOldest100 ==
    (lastOp.kind = "put" /\ lastOp.sizeAfterSet = MaxCacheEntries + 1) =>
        /\ Cardinality(lastOp.evicted) = EvictBatch
        /\ Len(cache) = MaxCacheEntries + 1 - EvictBatch
        /\ lastOp.key \in CacheKeys(cache)
        /\ \A e \in lastOp.evicted : \A i \in DOMAIN cache : e.ts <= cache[i].ts
        /\ \A e \in lastOp.evicted : e.key \notin CacheKeys(cache)

C19_Witness == lastOp.kind = "put" /\ lastOp.sizeAfterSet = MaxCacheEntries + 1 /\ cache[1].ts > 50

\* C20: a get returns the entry while it is not older than 24h and returns null,
\* deleting it, once older than 24h; eviction by age only past 24h.
C20_GetTtlAsStated ==
    (lastOp.kind = "get" /\ lastOp.found) =>
        /\ (lastOp.age <= CacheDurationMs => lastOp.hit)
        /\ (lastOp.age > CacheDurationMs => (~lastOp.hit /\ lastOp.key \notin CacheKeys(cache)))

\* C24: in waitForAnalysis a status fetch starts only while the elapsed time is
\* below the timeout, every fetch but the first is preceded by exactly one sleep,
\* no sleep precedes the first, and each sleep lasts at least intervalMs.
C24_PollPacing ==
    [][ /\ (pc = "poll_fetch" /\ statusCalls' = statusCalls + 1)
            => (elapsed < TimeoutMs /\ sleeps = statusCalls)
        /\ (sleeps' = sleeps + 1)
            => (statusCalls = sleeps + 1 /\ elapsed' >= elapsed + IntervalMs) ]_vars

C24_Witness == pollOutcome = "timeout" /\ elapsed = TimeoutMs /\ sleeps = statusCalls /\ sleeps > 1

\* C25 (as stated): stale_age_human is "fresh" exactly when the pre-scan report has
\* no last_analysis_date, and otherwise the humanized age now - date.
C25_StaleAgeHumanAsStated ==
    summary.done =>
        LET hasLad == sumPre.kind = "body" /\ sumPre.hasAttr /\ Truthy(sumPre.lad)
        IN /\ (~hasLad => summary.staleAgeHuman = "fresh")
           /\ (hasLad => summary.staleAgeHuman = HumanizeDuration(FALSE, MinusSec(sumNow, sumPre.lad)))

\* C25 (amended): stale_age_human is the humanized age now - date when a pre-scan
\* last_analysis_date exists and that age exceeds 30 days, and "fresh" otherwise.
C25_StaleAgeHuman ==
    summary.done =>
        LET hasLad == sumPre.kind = "body" /\ sumPre.hasAttr /\ Truthy(sumPre.lad)
            d == sumNow.s - sumPre.lad
            over30 == d > 30 * DaySec \/ (d = 30 * DaySec /\ sumNow.r > 0)
        IN summary.staleAgeHuman =
               IF hasLad /\ over30 THEN HumanizeDuration(FALSE, MinusSec(sumNow, sumPre.lad))
               ELSE "fresh"

C25_Witness ==
    summary.done /\ sumPre.lad = NowSec - 29 * DaySec /\ summary.staleAgeHuman = "fresh"

\* C27: both summarize implementations (VirusTotalService.summarize and the
\* standalone summarize of index.ts) return the same safe value on every input:
\* whichever one ran agrees with the service's verdict on the same reports.
C27_ImplsAgreeOnSafe ==
    summary.done => summary.safe = SummarizeService(sumPre, sumPost, sumNow).safe

\* C28: after any sequence of cache puts and gets the result cache holds at most
\* 1000 entries.
C28_CacheBounded == Len(cache) <= MaxCacheEntries

C28_Witness == lastOp.kind = "put" /\ lastOp.sizeAfterSet = MaxCacheEntries + 1 /\ Len(cache) = MaxCacheEntries - EvictBatch + 1

\* C21: a scan message whose URL has a fresh cache entry is answered from the
\* cache, and no call to the backend is made for it.
C21_CacheHitNoBackend ==
    \A i \in Reqs :
        reqHit[i] => (reqCalls[i] = 0 /\ reqOutcome[i] = "cache"
                      /\ reqPc[i] \in {"responded", "delivered"})

C21_Witness ==
    \E i, j \in Reqs :
        /\ reqHit[j] /\ reqPc[j] = "delivered" /\ reqUrl[i] = reqUrl[j]
        /\ reqOutcome[i] = "ok" /\ bgTicks = 1

\* C26: the cache entry of a URL always holds the result stored last for it;
\* with the witness, two overlapping scans of one URL both reach the backend.
C26_LastStoreWins ==
    \A k \in DOMAIN bgCache : bgCache[k].res = bgLastStored[bgCache[k].key]

C26_Witness ==
    \E i, j \in Reqs :
        /\ i < j /\ reqUrl[i] = reqUrl[j]
        /\ reqCalls[i] = 1 /\ reqCalls[j] = 1
        /\ reqOutcome[i] = "ok" /\ reqOutcome[j] = "ok"
        /\ bgLastStored[reqUrl[i]] = i /\ bgTicks = 0
        /\ Len(bgCache) = 1 /\ bgCache[1].res = i

\* C29: only successful results are cached: the step that ends a scan with a
\* failure (network error, HTTP error, unparsable body or success false) leaves
\* the cache unchanged, and every cached result comes from a successful scan.
C29_FailuresNotCached ==
    /\ [][\A i \in Reqs :
            (reqOutcome[i] /= "fail" /\ reqOutcome'[i] = "fail") => bgCache' = bgCache]_vars
    /\ [](\A k \in DOMAIN bgCache : reqOutcome[bgCache[k].res] = "ok")

C29_Witness ==
    \E i, j \in Reqs :
        /\ i < j /\ reqUrl[i] = reqUrl[j]
        /\ reqOutcome[i] = "fail" /\ reqCalls[j] = 1 /\ reqPc[j] = "delivered"
        /\ reqPc[i] = "delivered"

\* C30: the isScanning guard keeps at most one scan message in flight: no second
\* message is sent while an earlier one's response has not reached the callback.
C30_OneScanInFlight ==
    Cardinality({i \in Reqs : reqPc[i] \notin {"unsent", "delivered"}}) <= 1

\* C22: a request whose url is malformed (empty or not a URL) is answered with a
\* validation error (400) and no upstream call is made for it.
C22_MalformedRejected ==
    ~(ctlIn.nonEmpty /\ ctlIn.isUrl) =>
        (ctlUpstream = 0 /\ (ctlPc = "done" => ctlStatus = 400))

C22_Witness == ctlPc = "done" /\ ctlStatus = 400 /\ ctlIn.nonEmpty /\ ~ctlIn.isUrl

\* C23: a poll timeout is answered 408, upstream 403 and 429 errors are answered
\* 403 and 429, every other failure 500 (and success 201).
C23_ErrorStatuses ==
    ctlPc = "done" /\ ctlResult.kind /= "validation" =>
        ctlStatus = CASE ctlResult.kind = "ok" -> 201
                      [] ctlResult.kind = "timeout" -> 408
                      [] ctlResult.kind = "http" /\ ctlResult.code = 403 -> 403
                      [] ctlResult.kind = "http" /\ ctlResult.code = 429 -> 429
                      [] OTHER -> 500

====
